---- MODULE Spec2Model ----
(***************************************************************************)
(* Model of Application.py: a runtime instance of a desktop application    *)
(* (identity, time window, sorted event log, file-descriptor table) with   *)
(* its merge, split and file-descriptor operations.                        *)
(***************************************************************************)
EXTENDS Integers, Sequences, FiniteSets, TLC

VARIABLES apps, desktopCache, evtime, last, eventStore, actor, lookups

vars == <<apps, desktopCache, evtime, last, eventStore, actor, lookups>>

(* ---------------------------------------------------------------------- *)
(* Bounds of the model                                                     *)
(* ---------------------------------------------------------------------- *)
NSlots == 2          \* caller variables that may hold an Application
MaxPid == 2          \* pids are 1..MaxPid
MaxAppTime == 2      \* tstart/tend given to the constructor: 0..MaxAppTime
MaxMergeStart == 1   \* tstart of the Applications that get merged
MaxEvTime == 3       \* event timestamps and split bounds: 0..MaxEvTime
NEvents == 3         \* Event objects that exist: 1..NEvents
MaxLog == 3          \* longest event log built with addEvent
MaxOtherLog == 1     \* longest event log of the record that gets merged in
MaxFdTime == 2       \* times given to openFD/closeFD/resolveFD: 0..MaxFdTime
MaxFds == 2          \* intervals held by one file-descriptor table
MaxStore == 3        \* events appended to the EventStore
NThreads == 2        \* threads that may be inside __getDesktopFile at once

Slots == 1..NSlots
Pids == 1..MaxPid
AppTimes == 0..MaxAppTime
MergeStarts == 0..MaxMergeStart
EvTimes == 0..MaxEvTime
EventIds == 1..NEvents
FdTimes == 0..MaxFdTime
Threads == 1..NThreads

\* Python's None
None == "None"

\* File descriptor numbers used by the traces
Handles == {3, 4}

\* A caller variable that holds no Application
NoApp == [exists |-> FALSE]

\* the caller variables: Slots hold constructed Applications, LeftVar and
\* RightVar the pair returned by split when the caller keeps it
LeftVar == NSlots + 1
RightVar == NSlots + 2
Holders == Slots \cup {LeftVar, RightVar}

\* the actor attribute of an Event nobody has sent to the store yet
NoActor == 0

(* ---------------------------------------------------------------------- *)
(* Generic helpers                                                         *)
(* ---------------------------------------------------------------------- *)
Min(a, b) == IF a <= b THEN a ELSE b
Max(a, b) == IF a >= b THEN a ELSE b

RECURSIVE SeqToSet(_)
SeqToSet(s) == IF s = <<>> THEN {} ELSE {Head(s)} \cup SeqToSet(Tail(s))

(* ---------------------------------------------------------------------- *)
(* File descriptor table                                                   *)
(* ---------------------------------------------------------------------- *)
\* Locators handed to openFD; one starting with '@' is a reference that
\* FileFactory.resolveFDRef may or may not resolve.
Locators == {"/tmp/x", "@ref"}
StartsWithAt(path) == path = "@ref"
\* Outcomes of FileFactory.resolveFDRef(path, time): nothing, or a path
ResolveFDRefOutcomes == {None, "/tmp/x"}

\* clearFDs: an empty dict; a missing key is an empty list here
EmptyFDs == [h \in Handles |-> <<>>]

\* number of (path, tstart, tend) tuples held by a table
RECURSIVE FdCountOver(_, _)
FdCountOver(fds, hs) ==
    IF hs = {} THEN 0
    ELSE LET h == CHOOSE x \in hs : TRUE
         IN Len(fds[h]) + FdCountOver(fds, hs \ {h})

FdCount(fds) == FdCountOver(fds, Handles)

\* openFD's sanity check, which only prints
OpenFDWarns(fdList, time) ==
    /\ Len(fdList) > 0
    /\ fdList[Len(fdList)].tend # 0
    /\ fdList[Len(fdList)].tend > time

\* an openFD that gives up where the sanity check prints
OpenFDTable_SkipsOnWarning(fds, fd, path, time) ==
    IF OpenFDWarns(fds[fd], time) THEN fds
    ELSE [fds EXCEPT ![fd] = Append(@, [path |-> path, tstart |-> time,
                                        tend |-> 0])]

\* openFD: the table after appending (path, time, 0) to the list of fd
OpenFDTable(fds, fd, path, time) ==
    [fds EXCEPT ![fd] = Append(@, [path |-> path, tstart |-> time, tend |-> 0])]

\* a closeFD that overwrites the close time of an interval already closed
CloseFDTable_AlwaysCloses(fds, fd, time) ==
    LET fdList == fds[fd]
        n == Len(fdList)
    IN IF n > 0
       THEN [fds EXCEPT ![fd] = [fdList EXCEPT ![n].tend = time]]
       ELSE fds

\* closeFD: the table after closing fd at time
CloseFDTable(fds, fd, time) ==
    LET fdList == fds[fd]
        n == Len(fdList)
    IN IF n > 0 /\ fdList[n].tend = 0
       THEN [fds EXCEPT ![fd] = [fdList EXCEPT ![n].tend = time]]
       ELSE fds

\* resolveFD's loop condition without the open-ended case
FDMatches_NoOpenEnd(iv, time) == time >= iv.tstart /\ time <= iv.tend

\* resolveFD's loop condition for one (path, tstart, tend)
FDMatches(iv, time) == time >= iv.tstart /\ (iv.tend = 0 \/ time <= iv.tend)

\* resolveFD: the path of the first matching interval, or None
RECURSIVE ScanFDs(_, _)
ScanFDs(fdList, time) ==
    IF fdList = <<>> THEN None
    ELSE IF FDMatches(Head(fdList), time) THEN Head(fdList).path
    ELSE ScanFDs(Tail(fdList), time)

\* a lookup that scans the fd's list from its most recent tuple
ResolveFDResult_LatestFirst(fds, fd, time) ==
    LET fdList == fds[fd]
    IN ScanFDs([i \in 1..Len(fdList) |-> fdList[Len(fdList) + 1 - i]], time)

ResolveFDResult(fds, fd, time) ==
    IF fds[fd] = <<>> THEN None ELSE ScanFDs(fds[fd], time)

(* ---------------------------------------------------------------------- *)
(* Desktop identifiers and the desktop cache                               *)
(* ---------------------------------------------------------------------- *)
\* desktopid arguments given to the constructor (None and '' are falsy)
DesktopIdArgs == {"Ristretto.desktop", "ristretto", "python.desktop",
                  "application://python.desktop", "foo.desktop"}
InterpreterArgs == {None, "Python", "ristretto"}
PathArgs == {None, "/usr/bin/app"}
CmdLines == {None, "", "app --run", "app --debug"}

\* str.lower()
Lower(s) ==
    CASE s = "Ristretto.desktop" -> "ristretto.desktop"
      [] s = "Python" -> "python"
      [] OTHER -> s

EndsWithDesktop(s) == s \in {"Ristretto.desktop", "ristretto.desktop",
                             "python.desktop", "foo.desktop",
                             "application://python.desktop"}

\* uri[14:] if uri.startswith("application://") else uri
StripUriScheme(uri) ==
    IF uri = "application://python.desktop" THEN "python.desktop" ELSE uri

\* the file name probed in a search location for a desktopid
DescriptorName(desktopid) ==
    IF EndsWithDesktop(desktopid) THEN desktopid
    ELSE CASE desktopid = "ristretto" -> "ristretto.desktop"
           [] desktopid = "python" -> "python.desktop"
           [] OTHER -> desktopid

\* DESKTOPPATHS, with the descriptor files each location holds
DesktopPaths == << {"python.desktop"}, {"ristretto.desktop", "python.desktop"} >>

\* DESKTOPIDRE applied to the resolved path, lower-cased: the file's base
\* name without the .desktop extension
DesktopIdOf(fileName) ==
    CASE fileName = "ristretto.desktop" -> "ristretto"
      [] fileName = "python.desktop" -> "python"
      [] OTHER -> "foo"

\* a loop that falls back to the desktopid asked for when no file parses
RECURSIVE ProbePaths_FallsBack(_, _)
ProbePaths_FallsBack(paths, desktopid) ==
    IF paths = <<>> THEN desktopid
    ELSE IF DescriptorName(desktopid) \in Head(paths)
         THEN DesktopIdOf(DescriptorName(desktopid))
         ELSE ProbePaths_FallsBack(Tail(paths), desktopid)

\* the loop over DESKTOPPATHS: the finalid of the first location whose file
\* parses, None when none does
RECURSIVE ProbePaths(_, _)
ProbePaths(paths, desktopid) ==
    IF paths = <<>> THEN None
    ELSE IF DescriptorName(desktopid) \in Head(paths)
         THEN DesktopIdOf(DescriptorName(desktopid))
         ELSE ProbePaths(Tail(paths), desktopid)

\* number of search locations probed by that loop
RECURSIVE ProbeCount(_, _)
ProbeCount(paths, desktopid) ==
    IF paths = <<>> THEN 0
    ELSE IF DescriptorName(desktopid) \in Head(paths) THEN 1
         ELSE 1 + ProbeCount(Tail(paths), desktopid)

EmptyCache == [k \in {} |-> None]

\* not Application.desktopCache.get(desktopid)
CacheMisses(cache, desktopid) == desktopid \notin DOMAIN cache

\* an insertion that drops a key it finds already there
CacheInsert_DropsDuplicate(cache, finalid) ==
    IF finalid \in DOMAIN cache
    THEN [k \in DOMAIN cache \ {finalid} |-> cache[k]]
    ELSE [k \in DOMAIN cache \cup {finalid} |->
            IF k = finalid THEN finalid ELSE cache[k]]

\* Application.desktopCache[finalid] = (finalid, de)
CacheInsert(cache, finalid) ==
    [k \in DOMAIN cache \cup {finalid} |->
       IF k = finalid THEN finalid ELSE cache[k]]

\* a lookup that never reads the cache
GetDesktopFile_AlwaysProbes(cache, desktopid) ==
    LET finalid == ProbePaths(DesktopPaths, desktopid)
    IN [did |-> finalid,
        cache |-> [k \in DOMAIN cache \cup {finalid} |->
                     IF k = finalid THEN finalid ELSE cache[k]],
        probes |-> ProbeCount(DesktopPaths, desktopid)]

\* __getDesktopFile: the finalid returned, the cache afterwards and the
\* number of search locations probed
GetDesktopFile(cache, desktopid) ==
    IF CacheMisses(cache, desktopid)
    THEN LET finalid == ProbePaths(DesktopPaths, desktopid)
         IN [did |-> finalid,
             cache |-> CacheInsert(cache, finalid),
             probes |-> ProbeCount(DesktopPaths, desktopid)]
    ELSE [did |-> cache[desktopid], cache |-> cache, probes |-> 0]

\* __getDesktopFile run by a thread, one step at a time: the test of the
\* cache, the loop over DESKTOPPATHS, the insertion and return
IdleLookup == [pc |-> "idle", token |-> None, finalid |-> None, did |-> None,
               missed |-> FALSE]

\* the desktopids threads look up
LookupTokens == {StripUriScheme(Lower(d)) : d \in DesktopIdArgs}

\* a thread enters __getDesktopFile and tests the cache; on a hit it
\* returns the cached pair
LookupBegin(t, desktopid) ==
    /\ lookups[t].pc = "idle"
    /\ lookups' = [lookups EXCEPT ![t] =
                     IF CacheMisses(desktopCache, desktopid)
                     THEN [pc |-> "probe", token |-> desktopid,
                           finalid |-> None, did |-> None, missed |-> TRUE]
                     ELSE [pc |-> "done", token |-> desktopid,
                           finalid |-> None, did |-> desktopCache[desktopid],
                           missed |-> FALSE]]
    /\ UNCHANGED <<apps, desktopCache, evtime, last, eventStore, actor>>

\* the thread runs the loop over DESKTOPPATHS
LookupProbe(t) ==
    /\ lookups[t].pc = "probe"
    /\ lookups' = [lookups EXCEPT ![t].pc = "insert",
                                  ![t].finalid =
                                     ProbePaths(DesktopPaths, lookups[t].token)]
    /\ UNCHANGED <<apps, desktopCache, evtime, last, eventStore, actor>>

\* the thread inserts what it found and returns it
LookupInsert(t) ==
    /\ lookups[t].pc = "insert"
    /\ desktopCache' = CacheInsert(desktopCache, lookups[t].finalid)
    /\ lookups' = [lookups EXCEPT ![t].pc = "done",
                                  ![t].did = lookups[t].finalid]
    /\ UNCHANGED <<apps, evtime, last, eventStore, actor>>

\* getDesktopIdFromDesktopUri
GetDesktopIdFromDesktopUri(cache, uri) ==
    GetDesktopFile(cache, StripUriScheme(uri))

\* _regenUid: "%s:%d:%d" % (desktopid, pid, tstart)
RegenUid(app) == [app EXCEPT !.uid = <<app.desktopid, app.pid, app.tstart>>]

\* __init__ after the identity is settled; fdsRef names the dict object made
\* by clearFDs after the variable the new Application is bound to
NewApp(holder, did, pid, tstart, tend, interpreterid) ==
    RegenUid([exists |-> TRUE, init |-> TRUE, desktopid |-> did,
              interpreterid |-> IF interpreterid # None
                                THEN Lower(interpreterid) ELSE None,
              path |-> None, cmdline |-> None, pid |-> pid,
              tstart |-> tstart, tend |-> tend, uid |-> None,
              events |-> <<>>, fds |-> EmptyFDs, fdsRef |-> holder])

\* Python truthiness of a str-or-None
Truthy(s) == s # None /\ s # ""

\* a dispatch that refuses a desktopid given together with a path
InitBranch_RejectBoth(desktopid, path) ==
    IF Truthy(desktopid) /\ Truthy(path) THEN "neither"
    ELSE IF Truthy(desktopid) THEN "desktopid"
    ELSE IF Truthy(path) THEN "path"
    ELSE "neither"

\* a dispatch whose second branch is a plain else
InitBranch_PathByDefault(desktopid, path) ==
    IF Truthy(desktopid) THEN "desktopid" ELSE "path"

\* __init__'s if desktopid / elif path / else
InitBranch(desktopid, path) ==
    IF Truthy(desktopid) THEN "desktopid"
    ELSE IF Truthy(path) THEN "path"
    ELSE "neither"

\* the exceptions __init__ can end with
CouldNotInitialise == "ValueError: Could not initialise desktopid"
PathOrIdNeeded == "ValueError: A binary path or a Desktop id are needed"
NoInitFromPath == "AttributeError: no attribute __initFromPath"

\* app = Application(desktopid, path, pid, tstart, tend, interpreterid)
Construct(slot, desktopid, path, pid, tstart, tend, interpreterid) ==
    /\ apps[slot] = NoApp
    /\ LET branch == InitBranch(desktopid, path)
           token == IF branch = "desktopid"
                    THEN StripUriScheme(Lower(desktopid)) ELSE None
           call == [op |-> "init", slot |-> slot, desktopid |-> desktopid,
                    path |-> path, token |-> token, preCache |-> desktopCache,
                    repeat |-> last.op = "init" /\ last.token = token]
       IN IF branch = "desktopid"
          THEN LET r == GetDesktopIdFromDesktopUri(desktopCache, Lower(desktopid))
               IN /\ desktopCache' = r.cache
                  /\ IF r.did = None
                     THEN /\ apps' = apps
                          /\ last' = call @@ [result |-> CouldNotInitialise,
                                              probes |-> r.probes]
                     ELSE /\ apps' = [apps EXCEPT ![slot] =
                                        NewApp(slot, r.did, pid, tstart, tend,
                                               interpreterid)]
                          /\ last' = call @@ [result |-> "ok",
                                              probes |-> r.probes]
          ELSE /\ UNCHANGED <<apps, desktopCache>>
               /\ last' = call @@ [probes |-> 0,
                                   result |-> IF branch = "path"
                                              THEN NoInitFromPath
                                              ELSE PathOrIdNeeded]
    /\ UNCHANGED <<evtime, eventStore, actor, lookups>>

(* ---------------------------------------------------------------------- *)
(* hasSameDesktopId                                                        *)
(* ---------------------------------------------------------------------- *)
\* strings given as :other: instead of an Application
BareIds == {"Ristretto.desktop", "python", "foo.desktop"}

\* the first group of DESKTOPIDRE matched against an identifier: its base
\* name without the .desktop extension
DesktopReName(id) ==
    CASE id = "ristretto.desktop" -> "ristretto"
      [] id = "python.desktop" -> "python"
      [] id = "foo.desktop" -> "foo"
      [] OTHER -> id

\* the AttributeError raised for a string when interpreters are to be resolved
OnlyApplications == "AttributeError: can only resolve interpreters of an Application"

\* the comparison that ends hasSameDesktopId
SameIdOutcome(self, otherName, otherInterpreter, resolveInterpreter) ==
    IF self.desktopid = otherName THEN "True"
    ELSE IF resolveInterpreter /\ self.interpreterid = otherName THEN "True"
    ELSE IF resolveInterpreter /\ self.desktopid = otherInterpreter THEN "True"
    ELSE "False"

\* hasSameDesktopId without the refusal of strings
HasSameDesktopIdResult_NoRefusal(self, other, resolveInterpreter) ==
    IF other.kind = "app"
    THEN SameIdOutcome(self, DesktopReName(other.app.desktopid),
                       other.app.interpreterid, resolveInterpreter)
    ELSE SameIdOutcome(self, DesktopReName(Lower(other.str)), None,
                       resolveInterpreter)

\* hasSameDesktopId comparing interpreters whatever the flag says
HasSameDesktopIdResult_AlwaysResolves(self, other, resolveInterpreter) ==
    IF other.kind = "app"
    THEN SameIdOutcome(self, DesktopReName(other.app.desktopid),
                       other.app.interpreterid, TRUE)
    ELSE IF resolveInterpreter THEN OnlyApplications
    ELSE SameIdOutcome(self, DesktopReName(Lower(other.str)), None, FALSE)

\* self.hasSameDesktopId(other, resolveInterpreter): "True", "False" or the
\* exception raised; other is an Application or a string
HasSameDesktopIdResult(self, other, resolveInterpreter) ==
    IF other.kind = "app"
    THEN SameIdOutcome(self, DesktopReName(other.app.desktopid),
                       other.app.interpreterid, resolveInterpreter)
    ELSE IF resolveInterpreter THEN OnlyApplications
    ELSE SameIdOutcome(self, DesktopReName(Lower(other.str)), None, FALSE)

\* the values :other: can take: an Application held by the caller or a string
Others ==
    {[kind |-> "app", app |-> apps[o]] : o \in {x \in Slots : apps[x] # NoApp}}
      \cup {[kind |-> "str", str |-> b] : b \in BareIds}

\* app.hasSameDesktopId(other, resolveInterpreter)
HasSameDesktopId(slot, other, resolveInterpreter) ==
    /\ apps[slot] # NoApp
    /\ last' = [op |-> "hasSameDesktopId", slot |-> slot, other |-> other,
                resolveInterpreter |-> resolveInterpreter, pre |-> apps[slot],
                result |-> HasSameDesktopIdResult(apps[slot], other,
                                                  resolveInterpreter)]
    /\ UNCHANGED <<apps, desktopCache, evtime, eventStore, actor, lookups>>

\* setCommandLine
SetCommandLine(slot, cmd) ==
    /\ apps[slot] # NoApp
    /\ apps' = [apps EXCEPT ![slot].cmdline = cmd]
    /\ last' = [op |-> "setCommandLine", slot |-> slot]
    /\ UNCHANGED <<desktopCache, evtime, eventStore, actor, lookups>>

\* setTimeOfStart: only tstart is assigned
SetTimeOfStart(slot, val) ==
    /\ apps[slot] # NoApp
    /\ apps' = [apps EXCEPT ![slot].tstart = val]
    /\ last' = [op |-> "setTimeOfStart", slot |-> slot, val |-> val]
    /\ UNCHANGED <<desktopCache, evtime, eventStore, actor, lookups>>

\* setTimeOfEnd: only tend is assigned
SetTimeOfEnd(slot, val) ==
    /\ apps[slot] # NoApp
    /\ apps' = [apps EXCEPT ![slot].tend = val]
    /\ last' = [op |-> "setTimeOfEnd", slot |-> slot, val |-> val]
    /\ UNCHANGED <<desktopCache, evtime, eventStore, actor, lookups>>

\* what closeFD(fd) on an Application remembers of the call made just
\* before it, when that call was an openFD or closeFD of the same fd
Summary(l, slot, fd) ==
    IF l.op = "openFD" /\ l.slot = slot /\ l.fd = fd
    THEN [op |-> "openFD", path |-> l.path, fresh |-> l.pre.fds[fd] = <<>>]
    ELSE IF l.op = "closeFD" /\ l.slot = slot /\ l.fd = fd
    THEN [op |-> "closeFD"]
    ELSE [op |-> "other"]

(* ---------------------------------------------------------------------- *)
(* File descriptor operations                                              *)
(* ---------------------------------------------------------------------- *)
\* self.fds[fd] = fdList: the dict object of the Application is written, and
\* with it every Application whose fds attribute is that same object
WriteFDs(slot, table) ==
    [x \in DOMAIN apps |->
       IF apps[x] # NoApp /\ apps[x].fdsRef = apps[slot].fdsRef
       THEN [apps[x] EXCEPT !.fds = table] ELSE apps[x]]

\* app.openFD(fd, path, time)
OpenFD(slot, fd, path, time) ==
    /\ apps[slot] # NoApp
    /\ FdCount(apps[slot].fds) < MaxFds
    /\ \E resolved \in ResolveFDRefOutcomes :
         LET stored == IF StartsWithAt(path) /\ resolved # None
                       THEN resolved ELSE path
         IN /\ apps' = WriteFDs(slot, OpenFDTable(apps[slot].fds, fd, stored,
                                                   time))
            /\ last' = [op |-> "openFD", slot |-> slot, fd |-> fd,
                        path |-> path, stored |-> stored, time |-> time,
                        warned |-> OpenFDWarns(apps[slot].fds[fd], time),
                        pre |-> apps[slot]]
    /\ UNCHANGED <<desktopCache, evtime, eventStore, actor, lookups>>

\* app.closeFD(fd, time)
CloseFD(slot, fd, time) ==
    /\ apps[slot] # NoApp
    /\ apps' = WriteFDs(slot, CloseFDTable(apps[slot].fds, fd, time))
    /\ last' = [op |-> "closeFD", slot |-> slot, fd |-> fd, time |-> time,
                pre |-> apps[slot], prev |-> Summary(last, slot, fd)]
    /\ UNCHANGED <<desktopCache, evtime, eventStore, actor, lookups>>

\* app.resolveFD(fd, time)
ResolveFD(slot, fd, time) ==
    /\ apps[slot] # NoApp
    /\ last' = [op |-> "resolveFD", slot |-> slot, fd |-> fd, time |-> time,
                result |-> ResolveFDResult(apps[slot].fds, fd, time)]
    /\ UNCHANGED <<apps, desktopCache, evtime, eventStore, actor, lookups>>

(* ---------------------------------------------------------------------- *)
(* Event log (blist.sortedlist keyed by Event.time)                        *)
(* ---------------------------------------------------------------------- *)
\* sortedlist.bisect_left: index before the first element whose key >= t
RECURSIVE BisectLeft(_, _)
BisectLeft(events, t) ==
    IF events = <<>> \/ evtime[Head(events)] >= t THEN 0
    ELSE 1 + BisectLeft(Tail(events), t)

\* sortedlist.bisect_right: index after the last element whose key <= t
RECURSIVE BisectRight(_, _)
BisectRight(events, t) ==
    IF events = <<>> \/ evtime[Head(events)] > t THEN 0
    ELSE 1 + BisectRight(Tail(events), t)

\* an add that inserts before the events of the same key
SortedAdd_BisectLeft(events, e) ==
    LET i == BisectLeft(events, evtime[e])
    IN SubSeq(events, 1, i) \o <<e>> \o SubSeq(events, i + 1, Len(events))

\* sortedlist.add: insert at bisect_right of the event's key
SortedAdd(events, e) ==
    LET i == BisectRight(events, evtime[e])
    IN SubSeq(events, 1, i) \o <<e>> \o SubSeq(events, i + 1, Len(events))

\* sortedlist.update: add each value of the iterable in turn
RECURSIVE SortedUpdate(_, _)
SortedUpdate(events, new) ==
    IF new = <<>> THEN events
    ELSE SortedUpdate(SortedAdd(events, Head(new)), Tail(new))

\* the orders in which list(set) may enumerate a set of events
Orderings(S) ==
    {q \in [1..Cardinality(S) -> S] : \A x \in S : \E i \in DOMAIN q : q[i] = x}

\* EventStore.append called for each event of a log in turn
StoreAppend(store, events) == store \o events

\* app.addEvent(event)
AddEvent(slot, e) ==
    /\ apps[slot] # NoApp
    /\ Len(apps[slot].events) < MaxLog
    /\ apps' = [apps EXCEPT ![slot].events = SortedAdd(@, e)]
    /\ last' = [op |-> "addEvent", slot |-> slot]
    /\ UNCHANGED <<desktopCache, evtime, eventStore, actor, lookups>>

(* ---------------------------------------------------------------------- *)
(* split                                                                   *)
(* ---------------------------------------------------------------------- *)
\* an ir that stops before the events at afterStart
SplitIr_BisectLeft(events, afterStart) == BisectLeft(events, afterStart)

\* ir = self.events.bisect_right(Event(time=afterStart))
SplitIr(events, afterStart) == BisectRight(events, afterStart)

\* the check written as an ordering test
SplitRaises_Greater(il, ir) == il > ir

\* a split without the check
SplitRaises_Never(il, ir) == FALSE

\* the check that raises IndexError
SplitRaises(il, ir) == il # ir

\* a copy whose fds attribute is the original's dict object
DeepCopy_SharesFDs(app, holder) == app

\* deepcopy(self): every attribute is copied, the fds dict into a dict of its
\* own (named after the variable the copy ends in)
DeepCopy(app, holder) == [app EXCEPT !.fdsRef = holder]

\* an appLeft whose time of end is never moved
SplitLeft_KeepsEnd(app, il) ==
    [DeepCopy(app, LeftVar) EXCEPT !.events = SubSeq(app.events, 1, il)]

\* appLeft: a deep copy holding events[:il]
SplitLeft(app, il) ==
    LET evs == SubSeq(app.events, 1, il)
    IN [DeepCopy(app, LeftVar) EXCEPT !.events = evs,
                   !.tend = IF Len(evs) > 0 THEN evtime[evs[Len(evs)]] ELSE @]

\* an appRight that keeps the whole log
SplitRight_WholeLog(app, ir) ==
    [DeepCopy(app, RightVar) EXCEPT
       !.tstart = IF Len(app.events) > 0 THEN evtime[app.events[1]] ELSE @]

\* appRight: a deep copy holding events[ir:]
SplitRight(app, ir) ==
    LET evs == SubSeq(app.events, ir + 1, Len(app.events))
    IN [DeepCopy(app, RightVar) EXCEPT !.events = evs,
                   !.tstart = IF Len(evs) > 0 THEN evtime[evs[1]] ELSE @]

\* a split whose appLeft is self itself instead of a copy
SplitOriginal_IsLeft(app, il) == SplitLeft(app, il)

\* self after a split: events and times are assigned to the two copies only
SplitOriginal(app, il) == app

\* (left, right) = app.split(beforeEnd, afterStart); the two Applications
\* returned are held by last.left and last.right
Split(slot, beforeEnd, afterStart) ==
    /\ apps[slot] # NoApp
    /\ LET app == apps[slot]
           il == BisectLeft(app.events, beforeEnd)
           ir == SplitIr(app.events, afterStart)
       IN IF SplitRaises(il, ir)
          THEN /\ apps' = apps
               /\ last' = [op |-> "split", slot |-> slot,
                           result |-> "IndexError", beforeEnd |-> beforeEnd,
                           afterStart |-> afterStart, pre |-> app]
          ELSE /\ apps' = [apps EXCEPT ![slot] = SplitOriginal(app, il)]
               /\ last' = [op |-> "split", slot |-> slot, result |-> "ok",
                           beforeEnd |-> beforeEnd, afterStart |-> afterStart,
                           pre |-> app, left |-> SplitLeft(app, il),
                           right |-> SplitRight(app, ir)]
    /\ UNCHANGED <<desktopCache, evtime, eventStore, actor, lookups>>

\* (left, right) = app.split(beforeEnd, afterStart) by a caller that goes on
\* using the two Applications: they end in LeftVar and RightVar
SplitKeep(slot, beforeEnd, afterStart) ==
    /\ apps[slot] # NoApp
    /\ LET app == apps[slot]
           il == BisectLeft(app.events, beforeEnd)
           ir == SplitIr(app.events, afterStart)
       IN IF SplitRaises(il, ir)
          THEN /\ apps' = apps
               /\ last' = [op |-> "split", slot |-> slot,
                           result |-> "IndexError", beforeEnd |-> beforeEnd,
                           afterStart |-> afterStart, pre |-> app]
          ELSE /\ apps' = [apps EXCEPT ![slot] = SplitOriginal(app, il),
                                       ![LeftVar] = SplitLeft(app, il),
                                       ![RightVar] = SplitRight(app, ir)]
               /\ last' = [op |-> "split", slot |-> slot, result |-> "ok",
                           beforeEnd |-> beforeEnd, afterStart |-> afterStart,
                           pre |-> app, left |-> SplitLeft(app, il),
                           right |-> SplitRight(app, ir)]
    /\ UNCHANGED <<desktopCache, evtime, eventStore, actor, lookups>>

\* a loop that appends the events without touching their actor
SendActors_Untouched(actors, events, slot) == actors

\* event.actor = self for every event of the log
SendActors(actors, events, slot) ==
    [e \in EventIds |-> IF e \in SeqToSet(events) THEN slot ELSE actors[e]]

\* app.sendEventsToStore(): every event of the log gets app as its actor and
\* is appended to the EventStore, then the log is cleared
SendEventsToStore(slot) ==
    /\ apps[slot] # NoApp
    /\ LET events == apps[slot].events
       IN /\ actor' = SendActors(actor, events, slot)
          /\ eventStore' = StoreAppend(eventStore, events)
          /\ apps' = [apps EXCEPT ![slot].events = <<>>]
          /\ last' = [op |-> "sendEventsToStore", slot |-> slot,
                      pre |-> apps[slot], preStore |-> eventStore]
    /\ UNCHANGED <<desktopCache, evtime, lookups>>

(* ---------------------------------------------------------------------- *)
(* merge                                                                   *)
(* ---------------------------------------------------------------------- *)
\* merge's checks without the pid comparison
MergeCheck_NoPid(self, other) ==
    IF self.init # other.init THEN "ValueError: init"
    ELSE IF /\ self.desktopid # other.desktopid
            /\ self.interpreterid # other.desktopid
            /\ self.desktopid # other.interpreterid
         THEN "ValueError: desktopid"
    ELSE "ok"

\* the ValueError raised by merge's checks, "ok" when none is
MergeCheck(self, other) ==
    IF self.init # other.init THEN "ValueError: init"
    ELSE IF self.pid # other.pid THEN "ValueError: pid"
    ELSE IF /\ self.desktopid # other.desktopid
            /\ self.interpreterid # other.desktopid
            /\ self.desktopid # other.interpreterid
         THEN "ValueError: desktopid"
    ELSE "ok"

\* a reconciliation that adopts other's desktopid in both branches
MergeIdentity_AlwaysAdopt(self, other) ==
    IF self.desktopid # other.desktopid
    THEN IF self.interpreterid = other.desktopid
         THEN RegenUid([self EXCEPT !.desktopid = other.desktopid])
         ELSE IF self.desktopid = other.interpreterid
              THEN [RegenUid([self EXCEPT !.desktopid = other.desktopid])
                      EXCEPT !.interpreterid = other.interpreterid]
              ELSE self
    ELSE self

\* a reconciliation that adopts other's desktopid and keeps self's
\* interpreterid
MergeIdentity_KeepsInterpreter(self, other) ==
    IF self.desktopid # other.desktopid
    THEN IF self.interpreterid = other.desktopid THEN self
         ELSE IF self.desktopid = other.interpreterid
              THEN RegenUid([self EXCEPT !.desktopid = other.desktopid])
              ELSE self
    ELSE self

\* the desktopid / interpreterid reconciliation of a merge that passes
MergeIdentity(self, other) ==
    IF self.desktopid # other.desktopid
    THEN IF self.interpreterid = other.desktopid THEN self
         ELSE IF self.desktopid = other.interpreterid
              THEN [RegenUid([self EXCEPT !.desktopid = other.desktopid])
                      EXCEPT !.interpreterid = other.interpreterid]
              ELSE self
    ELSE self

\* a fill that takes other's cmdline whenever other has one
MergeFill_Overwrites(self, other) ==
    [self EXCEPT !.path = IF ~Truthy(@) /\ Truthy(other.path)
                          THEN other.path ELSE @,
                 !.cmdline = IF Truthy(other.cmdline)
                             THEN other.cmdline ELSE @]

\* path and cmdline taken from other when self has none
MergeFill(self, other) ==
    [self EXCEPT !.path = IF ~Truthy(@) /\ Truthy(other.path)
                          THEN other.path ELSE @,
                 !.cmdline = IF ~Truthy(@) /\ Truthy(other.cmdline)
                             THEN other.cmdline ELSE @]

\* setTimeOfStart(min(other.getTimeOfStart(), self.getTimeOfStart()))
MergeTimeOfStart(self, other) == Min(other.tstart, self.tstart)

\* a time of end that keeps the smaller of the two
MergeTimeOfEnd_Min(self, other) == Min(other.tend, self.tend)

\* setTimeOfEnd(max(other.getTimeOfEnd(), self.getTimeOfEnd()))
MergeTimeOfEnd(self, other) == Max(other.tend, self.tend)

\* an update with all of other's events
MergeNewEvents_All(self, other) == SeqToSet(other.events)

\* set(other.events) - set(self.events)
MergeNewEvents(self, other) == SeqToSet(other.events) \ SeqToSet(self.events)

\* a merge that moves the times before it checks anything
MergeRaised_TimesFirst(self, other) ==
    [self EXCEPT !.tstart = MergeTimeOfStart(self, other),
                 !.tend = MergeTimeOfEnd(self, other)]

\* self after a merge that raised: the checks of init, pid and desktopid
\* all come before the first assignment
MergeRaised(self, other) == self

\* a merge that takes other's events out of other's log
MergeOther_Drained(self, other) == [other EXCEPT !.events = <<>>]

\* other after a merge: merge reads other and assigns nothing to it
MergeOther(self, other) == other

\* self.merge(other), for self and other held by two caller variables
Merge(slot, o) ==
    /\ apps[slot] # NoApp /\ apps[o] # NoApp /\ slot # o
    /\ LET self == apps[slot]
           other == apps[o]
           check == MergeCheck(self, other)
       IN IF check # "ok"
          THEN /\ apps' = [apps EXCEPT ![slot] = MergeRaised(self, other)]
               /\ last' = [op |-> "merge", slot |-> slot, other |-> o,
                           result |-> check, pre |-> self, preOther |-> other]
          ELSE \E order \in Orderings(MergeNewEvents(self, other)) :
                 LET a1 == MergeFill(MergeIdentity(self, other), other)
                     a2 == [a1 EXCEPT !.tstart = MergeTimeOfStart(a1, other),
                                      !.tend = MergeTimeOfEnd(a1, other),
                                      !.events = SortedUpdate(@, order)]
                 IN /\ apps' = [apps EXCEPT ![slot] = RegenUid(a2),
                                             ![o] = MergeOther(self, other)]
                    /\ last' = [op |-> "merge", slot |-> slot, other |-> o,
                                result |-> "ok", pre |-> self,
                                preOther |-> other, order |-> order]
    /\ UNCHANGED <<desktopCache, evtime, eventStore, actor, lookups>>

(* ---------------------------------------------------------------------- *)
(* Specifications                                                          *)
(* ---------------------------------------------------------------------- *)
\* the Event objects of a run, each with its time attribute
EventTimings == {f \in [EventIds -> EvTimes] :
                    \A i \in EventIds, j \in EventIds : i <= j => f[i] <= f[j]}

Init ==
    /\ apps = [s \in Holders |-> NoApp]
    /\ desktopCache = EmptyCache
    /\ evtime \in EventTimings
    /\ last = [op |-> "none"]
    /\ eventStore = <<>>
    /\ actor = [e \in EventIds |-> NoActor]
    /\ lookups = [t \in Threads |-> IdleLookup]

\* a run in which no Event is ever created
InitNoEvents == Init /\ evtime = [e \in EventIds |-> 0]

\* bookkeeping of one file descriptor number of one Application
NextFD ==
    \/ Construct(1, "Ristretto.desktop", None, 1, 0, 0, None)
    \/ \E path \in Locators, time \in FdTimes : OpenFD(1, 3, path, time)
    \/ \E time \in FdTimes : CloseFD(1, 3, time)
    \/ \E fd \in Handles, time \in FdTimes : ResolveFD(1, fd, time)

SpecFD == InitNoEvents /\ [][NextFD]_vars

\* one Application accumulating events and being split
NextSplit ==
    \/ \E w \in {<<0, 0>>, <<1, MaxEvTime>>} :
         Construct(1, "Ristretto.desktop", None, 1, w[1], w[2], None)
    \/ \E e \in EventIds : AddEvent(1, e)
    \/ \E b \in EvTimes, a \in EvTimes : Split(1, b, a)

SpecSplit == Init /\ [][NextSplit]_vars

\* two Applications being constructed and merged
NextMerge ==
    \/ \E slot \in {1, 2}, desktopid \in {"Ristretto.desktop", "python.desktop"},
          pid \in Pids, tstart \in MergeStarts, tend \in AppTimes,
          interpreterid \in InterpreterArgs :
         Construct(slot, desktopid, None, pid, tstart, tend, interpreterid)
    \/ \E slot \in {1, 2}, o \in {1, 2} : Merge(slot, o)

SpecMerge == InitNoEvents /\ [][NextMerge]_vars

\* a run whose Event objects have the times 1, 2, ...
InitDistinctEvents ==
    Init /\ evtime = [e \in EventIds |-> Min(e, MaxEvTime)]

\* two Applications of one process living through every record operation
NextRecords ==
    \/ \E slot \in {1, 2}, w \in {<<0, 0>>, <<1, MaxAppTime>>} :
         Construct(slot, "Ristretto.desktop", None, 1, w[1], w[2], None)
    \/ \E val \in AppTimes : SetTimeOfStart(1, val)
    \/ \E e \in EventIds : AddEvent(1, e)
    \/ \E e \in EventIds :
         /\ apps[2] # NoApp
         /\ Len(apps[2].events) < MaxOtherLog
         /\ AddEvent(2, e)
    \/ Merge(1, 2)
    \/ \E b \in EvTimes, a \in EvTimes : Split(1, b, a)

SpecRecords == InitDistinctEvents /\ [][NextRecords]_vars

\* a run with two Events of time 1 and the later ones of time 2, ...
InitTiedEvents ==
    Init /\ evtime = [e \in EventIds |-> Min((e + 1) \div 2, MaxEvTime)]

\* an Event that was never given to addEvent: it is in no log and not in
\* the EventStore
Fresh(e) ==
    /\ \A x \in Holders : apps[x] # NoApp => e \notin SeqToSet(apps[x].events)
    /\ e \notin SeqToSet(eventStore)

\* two Applications of one process whose Events are each given to addEvent
\* once, then merged, split and sent to the EventStore
NextLog ==
    \/ \E slot \in {1, 2} :
         Construct(slot, "Ristretto.desktop", None, 1, 0, 0, None)
    \/ \E slot \in {1, 2}, e \in EventIds : Fresh(e) /\ AddEvent(slot, e)
    \/ Merge(1, 2)
    \/ \E b \in EvTimes : \E a \in {b - 1, b} \cap EvTimes : Split(1, b, a)
    \/ \E slot \in {1, 2} :
         /\ apps[slot] # NoApp
         /\ Len(eventStore) + Len(apps[slot].events) <= MaxStore
         /\ SendEventsToStore(slot)

SpecLog == InitTiedEvents /\ [][NextLog]_vars

\* the Application of test_pol_load_app_conf and the time of its file access
TestPid == 21
TestStart == 0
TestEnd == 300
TestEventTime == 140

\* a run whose Events all have the time of that access
InitExample ==
    /\ apps = [s \in Holders |-> NoApp]
    /\ desktopCache = EmptyCache
    /\ evtime = [e \in EventIds |-> TestEventTime]
    /\ last = [op |-> "none"]
    /\ eventStore = <<>>
    /\ actor = [e \in EventIds |-> NoActor]
    /\ lookups = [t \in Threads |-> IdleLookup]

\* that Application receiving events and being split around their time
NextExample ==
    \/ Construct(1, "ristretto.desktop", None, TestPid, TestStart, TestEnd,
                 None)
    \/ \E val \in {TestStart, TestEnd} : SetTimeOfEnd(1, val)
    \/ \E e \in EventIds : AddEvent(1, e)
    \/ \E b \in {TestEventTime - 1, TestEventTime},
          a \in {TestEventTime, TestEventTime + 1} : Split(1, b, a)

SpecExample == InitExample /\ [][NextExample]_vars

\* an Application that opens and closes a file descriptor, is split, and
\* whose two copies and itself go on opening and closing it
NextCopies ==
    \/ \E desktopid \in {"Ristretto.desktop", "python.desktop"}, pid \in Pids,
          interpreterid \in {None, "Python"} :
         Construct(1, desktopid, None, pid, 0, 0, interpreterid)
    \/ \E x \in Holders : OpenFD(x, 3, "/tmp/x", 1)
    \/ \E x \in Holders : CloseFD(x, 3, 2)
    \/ SplitKeep(1, 0, 0)

SpecCopies == InitNoEvents /\ [][NextCopies]_vars

\* Applications of one process being looked up, merged and split
NextCache ==
    \/ \E slot \in {1, 2}, desktopid \in DesktopIdArgs,
          interpreterid \in {None, "Python"} :
         Construct(slot, desktopid, None, 1, 0, 0, interpreterid)
    \/ \E slot \in {1, 2}, o \in {1, 2} : Merge(slot, o)
    \/ \E slot \in {1, 2} : Split(slot, 0, 0)

SpecCache == InitNoEvents /\ [][NextCache]_vars

\* two Applications being given command lines and merged
NextFill ==
    \/ \E slot \in {1, 2}, pid \in Pids :
         Construct(slot, "Ristretto.desktop", None, pid, 0, 0, None)
    \/ \E slot \in {1, 2}, cmd \in CmdLines : SetCommandLine(slot, cmd)
    \/ \E slot \in {1, 2}, o \in {1, 2} : Merge(slot, o)

SpecFill == InitNoEvents /\ [][NextFill]_vars

\* bookkeeping of the two file descriptor numbers of one Application
NextHandles ==
    \/ Construct(1, "Ristretto.desktop", None, 1, 0, 0, None)
    \/ \E fd \in Handles, path \in Locators, time \in {0, MaxFdTime} :
         OpenFD(1, fd, path, time)
    \/ \E fd \in Handles, time \in {0, 1, MaxFdTime} : CloseFD(1, fd, time)

SpecHandles == InitNoEvents /\ [][NextHandles]_vars

\* threads looking desktopids up, each once, in any interleaving
NextLookups ==
    \/ \E t \in Threads, desktopid \in LookupTokens : LookupBegin(t, desktopid)
    \/ \E t \in Threads : LookupProbe(t)
    \/ \E t \in Threads : LookupInsert(t)

SpecLookups == InitNoEvents /\ [][NextLookups]_vars

\* two Applications with events and open file descriptors being merged
NextMergeTables ==
    \/ \E slot \in {1, 2}, desktopid \in {"Ristretto.desktop", "python.desktop"},
          pid \in Pids, tend \in {0, MaxAppTime} :
         Construct(slot, desktopid, None, pid, slot - 1, tend, None)
    \/ \E slot \in {1, 2} : OpenFD(slot, 3, "/tmp/x", slot)
    \/ \E slot \in {1, 2}, e \in EventIds :
         /\ apps[slot] # NoApp
         /\ Len(apps[slot].events) < MaxOtherLog
         /\ Fresh(e)
         /\ AddEvent(slot, e)
    \/ \E slot \in {1, 2}, o \in {1, 2} : Merge(slot, o)

SpecMergeTables == InitDistinctEvents /\ [][NextMergeTables]_vars

\* Applications being constructed from every kind of argument
NextInit ==
    \E slot \in Slots, desktopid \in DesktopIdArgs \cup {None, ""},
       path \in PathArgs \cup {""}, interpreterid \in InterpreterArgs :
        Construct(slot, desktopid, path, 1, 0, 0, interpreterid)

SpecInit == InitNoEvents /\ [][NextInit]_vars

\* Applications being compared with one another and with strings
NextCompare ==
    \/ \E slot \in Slots, desktopid \in {"Ristretto.desktop", "python.desktop"},
          interpreterid \in InterpreterArgs :
         Construct(slot, desktopid, None, 1, 0, 0, interpreterid)
    \/ \E slot \in Slots, other \in Others, resolveInterpreter \in BOOLEAN :
         HasSameDesktopId(slot, other, resolveInterpreter)

SpecCompare == InitNoEvents /\ [][NextCompare]_vars

Next ==
    \/ NextFD \/ NextSplit \/ NextMerge \/ NextRecords \/ NextInit
    \/ NextCompare \/ NextLog \/ NextExample \/ NextCopies \/ NextCache
    \/ NextFill \/ NextHandles \/ NextLookups \/ NextMergeTables

Spec == Init /\ [][Next]_vars

(* ---------------------------------------------------------------------- *)
(* Properties: split                                                       *)
(* ---------------------------------------------------------------------- *)
\* events of a log whose timestamp lies strictly between two bounds
StrictlyBetween(events, lo, hi) ==
    {e \in SeqToSet(events) : lo < evtime[e] /\ evtime[e] < hi}

SplitDone == last.op = "split"
SplitOk == last.op = "split" /\ last.result = "ok"

\* C1: for bounds b <= a with no event timestamp strictly between them,
\* split(b, a) succeeds and the events of left together with the events of
\* right are exactly the events of the original (none lost, none invented).
C1_SplitKeepsEveryEvent ==
    (/\ SplitDone
     /\ last.beforeEnd <= last.afterStart
     /\ StrictlyBetween(last.pre.events, last.beforeEnd, last.afterStart) = {})
    => /\ last.result = "ok"
       /\ SeqToSet(last.left.events) \cup SeqToSet(last.right.events)
            = SeqToSet(last.pre.events)

\* C2: whenever the log holds an event whose timestamp is strictly between
\* beforeEnd and afterStart, split fails with IndexError; it never succeeds
\* while dropping that event.
C2_EventInGapRaises ==
    (/\ SplitDone
     /\ StrictlyBetween(last.pre.events, last.beforeEnd, last.afterStart) # {})
    => last.result = "IndexError"

C2_Witness ==
    /\ SplitDone
    /\ last.result = "IndexError"
    /\ Len(last.pre.events) >= 2
    /\ StrictlyBetween(last.pre.events, last.beforeEnd, last.afterStart) # {}

\* C3: for beforeEnd <= afterStart and no event strictly between the bounds,
\* split succeeds, left holds exactly the events with timestamp <= beforeEnd
\* and right exactly those with timestamp >= afterStart, so an event on a
\* bound is kept in the matching half instead of making the split fail.
C3_BoundsAreInclusive ==
    (/\ SplitDone
     /\ last.beforeEnd <= last.afterStart
     /\ StrictlyBetween(last.pre.events, last.beforeEnd, last.afterStart) = {})
    => /\ last.result = "ok"
       /\ SeqToSet(last.left.events)
            = {e \in SeqToSet(last.pre.events) : evtime[e] <= last.beforeEnd}
       /\ SeqToSet(last.right.events)
            = {e \in SeqToSet(last.pre.events) : evtime[e] >= last.afterStart}

(* ---------------------------------------------------------------------- *)
(* Properties: merge                                                       *)
(* ---------------------------------------------------------------------- *)
MergeDone == last.op = "merge"
MergeOk == last.op = "merge" /\ last.result = "ok"

\* C4: after a successful self.merge(other) where both records have a
\* non-zero time of end, self's time of start is the smaller of the two
\* starts and self's time of end the larger of the two ends, as held just
\* before the merge.
C4_MergedWindowIsMinMax ==
    (MergeOk /\ last.pre.tend # 0 /\ last.preOther.tend # 0)
    => LET m == apps[last.slot]
       IN /\ m.tstart \in {last.pre.tstart, last.preOther.tstart}
          /\ m.tstart <= last.pre.tstart /\ m.tstart <= last.preOther.tstart
          /\ m.tend \in {last.pre.tend, last.preOther.tend}
          /\ m.tend >= last.pre.tend /\ m.tend >= last.preOther.tend

C4_Witness ==
    /\ MergeOk
    /\ last.pre.tend = 1 /\ last.preOther.tend = 2
    /\ last.pre.tstart = 1 /\ last.preOther.tstart = 0
    /\ apps[last.slot].tstart = 0 /\ apps[last.slot].tend = 2

\* C5: after a successful self.merge(other) in which at least one of the
\* two records has the unbounded time of end 0, the merged record's time of
\* end is still 0; a known end never overwrites the unbounded sentinel.
C5_UnboundedEndSurvivesMerge ==
    (MergeOk /\ (last.pre.tend = 0 \/ last.preOther.tend = 0))
    => apps[last.slot].tend = 0

\* C6: self.merge(other) fails with ValueError exactly when the records
\* differ in initialisation status, or differ in pid, or have different
\* desktopids with neither self's interpreterid equal to other's desktopid
\* nor self's desktopid equal to other's interpreterid; each case has its
\* own reason and in every other case merge succeeds.
C6_MergeFailsExactlyOnMismatch ==
    MergeDone =>
      LET statusDiffers == last.pre.init # last.preOther.init
          pidDiffers == last.pre.pid # last.preOther.pid
          idDiffers == /\ last.pre.desktopid # last.preOther.desktopid
                       /\ last.pre.interpreterid # last.preOther.desktopid
                       /\ last.pre.desktopid # last.preOther.interpreterid
      IN /\ last.result \in {"ok", "ValueError: init", "ValueError: pid",
                              "ValueError: desktopid"}
         /\ (last.result # "ok") <=> (statusDiffers \/ pidDiffers \/ idDiffers)
         /\ last.result = "ValueError: init" => statusDiffers
         /\ last.result = "ValueError: pid" => pidDiffers
         /\ last.result = "ValueError: desktopid" => idDiffers

C6_Witness ==
    /\ MergeDone
    /\ last.result = "ValueError: pid"
    /\ last.pre.desktopid = last.preOther.desktopid

\* the case of C7: same pid, same status, different desktopids, and self's
\* interpreterid equal to other's desktopid
InterpreterOfSelfIsOther ==
    /\ MergeDone
    /\ last.pre.pid = last.preOther.pid
    /\ last.pre.init = last.preOther.init
    /\ last.pre.desktopid # last.preOther.desktopid
    /\ last.pre.interpreterid = last.preOther.desktopid

\* C7 as stated: when self's interpreterid equals other's desktopid,
\* self.merge(other) succeeds and the merged record's desktopid is other's.
C7_MergedCarriesOthersId ==
    InterpreterOfSelfIsOther
    => last.result = "ok" /\ apps[last.slot].desktopid = last.preOther.desktopid

\* C7 amended: when self's interpreterid equals other's desktopid (same
\* pid, same status, different desktopids), self.merge(other) succeeds and
\* the merged record keeps self's desktopid and interpreterid.
C7_MergedKeepsOwnId ==
    InterpreterOfSelfIsOther
    => /\ last.result = "ok"
       /\ apps[last.slot].desktopid = last.pre.desktopid
       /\ apps[last.slot].interpreterid = last.pre.interpreterid
       /\ apps[last.slot].uid[1] = last.pre.desktopid

C7_Witness ==
    /\ InterpreterOfSelfIsOther
    /\ last.result = "ok"
    /\ last.pre.desktopid = "ristretto"
    /\ last.preOther.desktopid = "python"

(* ---------------------------------------------------------------------- *)
(* Properties: file descriptor table                                       *)
(* ---------------------------------------------------------------------- *)
\* indices of the intervals of a list whose range contains a time
Containing(fdList, time) ==
    {i \in 1..Len(fdList) :
        /\ fdList[i].tstart <= time
        /\ (fdList[i].tend = 0 \/ time <= fdList[i].tend)}

C9_SecondCloseIsNoOp ==
    (last.op = "closeFD" /\ last.prev.op = "closeFD")
    => apps[last.slot].fds = last.pre.fds

\* C10: on an fd with no prior intervals, after openFD(fd, l, t0) and
\* closeFD(fd, t1) with 0 <= t0 <= t1, resolveFD(fd, t) returns l for every
\* t0 <= t <= t1 and None for every t > t1 and every t < t0.
C10_OpenCloseResolve ==
    (/\ last.op = "closeFD"
     /\ last.prev.op = "openFD"
     /\ last.prev.fresh
     /\ ~StartsWithAt(last.prev.path)
     /\ last.pre.fds[last.fd][1].tstart <= last.time)
    => LET t0 == last.pre.fds[last.fd][1].tstart
           t1 == last.time
       IN \A t \in 0..(MaxFdTime + 1) :
            ResolveFDResult(apps[last.slot].fds, last.fd, t)
              = IF t0 <= t /\ t <= t1 THEN last.prev.path ELSE None

\* a list of (path, tstart, tend) whose intervals follow one another: every
\* interval but the last is closed, closed no earlier than it was opened,
\* and closed no later than the next one opens
Chronological(fdList) ==
    \A i \in 1..Len(fdList) :
        /\ fdList[i].tend # 0 => fdList[i].tstart <= fdList[i].tend
        /\ i < Len(fdList) => /\ fdList[i].tend # 0
                              /\ fdList[i].tend <= fdList[i + 1].tstart

\* C11: in every reachable state the intervals of one fd are chronological
\* and pairwise non-overlapping and at most the last one is open: a new
\* interval only appears after the previous one was closed.
C11_IntervalsChronological ==
    \A s \in Slots :
        apps[s] # NoApp => \A h \in Handles : Chronological(apps[s].fds[h])

(* ---------------------------------------------------------------------- *)
(* Properties: unique key and event containment                            *)
(* ---------------------------------------------------------------------- *)
\* the key derived from a record's current desktopid, pid and tstart
UidIsCurrent(app) ==
    /\ app.uid[1] = app.desktopid
    /\ app.uid[2] = app.pid
    /\ app.uid[3] = app.tstart

\* C12: in every reachable state of every record (after construction,
\* after setTimeOfStart, after merge, and for both records returned by
\* split) uid() is the key derived from the record's current desktopid, pid
\* and time of start.
C12_UidFollowsItsInputs ==
    /\ \A s \in Slots : apps[s] # NoApp => UidIsCurrent(apps[s])
    /\ SplitOk => UidIsCurrent(last.left) /\ UidIsCurrent(last.right)

\* every event of a record lies in its window [tstart, tend], tend 0
\* meaning unbounded
EventsInWindow(app) ==
    \A e \in SeqToSet(app.events) :
        /\ app.tstart <= evtime[e]
        /\ (app.tend = 0 \/ evtime[e] <= app.tend)

\* C13: if before a merge or a split every event of each record involved
\* lies in that record's window, then after a successful merge the merged
\* record, and after a successful split both left and right, again hold
\* only events inside their own window.
C13_ContainmentPreserved ==
    /\ (MergeOk /\ EventsInWindow(last.pre) /\ EventsInWindow(last.preOther))
         => EventsInWindow(apps[last.slot])
    /\ (SplitOk /\ EventsInWindow(last.pre))
         => EventsInWindow(last.left) /\ EventsInWindow(last.right)

(* ---------------------------------------------------------------------- *)
(* Properties: construction                                                *)
(* ---------------------------------------------------------------------- *)
InitDone == last.op = "init"

\* no search location holds a descriptor file for the token
NoDescriptor(token) ==
    \A i \in 1..Len(DesktopPaths) : DescriptorName(token) \notin DesktopPaths[i]

\* C14: constructing a record from a desktopid for which no search location
\* yields a parseable descriptor fails with the ValueError of identity
\* resolution and produces no record; when a descriptor is found the
\* record is constructed with its canonical identifier and is initialised.
C14_UnresolvableIdFails ==
    (InitDone /\ Truthy(last.desktopid)) =>
       IF NoDescriptor(last.token)
       THEN last.result = CouldNotInitialise /\ apps[last.slot] = NoApp
       ELSE /\ last.result = "ok"
            /\ apps[last.slot] # NoApp
            /\ apps[last.slot].init
            /\ last.token \in {"ristretto", "ristretto.desktop"}
                 => apps[last.slot].desktopid = "ristretto"
            /\ last.token = "python.desktop"
                 => apps[last.slot].desktopid = "python"

C14_Witness ==
    /\ InitDone
    /\ last.desktopid = "foo.desktop"
    /\ last.result = CouldNotInitialise
    /\ \E s \in Slots : apps[s] # NoApp /\ apps[s].desktopid = "python"

\* C15: resolving an identifier for which no search location holds a
\* descriptor raises, and a second resolution of the same identifier raises
\* again from the cached negative result without probing the search
\* locations a second time.
C15_NegativeResultIsCached ==
    (InitDone /\ Truthy(last.desktopid) /\ NoDescriptor(last.token)
       /\ last.repeat)
    => last.result = CouldNotInitialise /\ last.probes = 0

\* C16: constructing a record with neither a desktopid nor a path fails
\* with the ValueError of invalid construction and performs no identity
\* resolution.
C16_NeitherFails ==
    (InitDone /\ ~Truthy(last.desktopid) /\ ~Truthy(last.path))
    => /\ last.result = PathOrIdNeeded
       /\ last.probes = 0
       /\ desktopCache = last.preCache
       /\ apps[last.slot] = NoApp

C16_Witness ==
    /\ InitDone
    /\ last.desktopid = "" /\ last.path = None
    /\ last.result = PathOrIdNeeded
    /\ DOMAIN desktopCache # {}

\* C17 as stated: constructing a record with both a desktopid and a path
\* fails with the ValueError of invalid construction and creates no record.
C17_BothRejected ==
    (InitDone /\ Truthy(last.desktopid) /\ Truthy(last.path))
    => last.result = PathOrIdNeeded /\ apps[last.slot] = NoApp

\* C17 amended: with both a desktopid and a path the desktopid is used and
\* the path ignored: the call never ends with the ValueError of invalid
\* construction; it creates an initialised record whose path is unset when
\* the desktopid resolves, and fails with the ValueError of identity
\* resolution, creating no record, when it does not.
C17_BothUsesDesktopId ==
    (InitDone /\ Truthy(last.desktopid) /\ Truthy(last.path)) =>
       IF NoDescriptor(last.token)
       THEN last.result = CouldNotInitialise /\ apps[last.slot] = NoApp
       ELSE /\ last.result = "ok"
            /\ apps[last.slot] # NoApp
            /\ apps[last.slot].init
            /\ apps[last.slot].path = None

C17_Witness ==
    /\ InitDone
    /\ last.desktopid = "Ristretto.desktop" /\ last.path = "/usr/bin/app"
    /\ last.result = "ok"
    /\ apps[last.slot] # NoApp

\* C18: constructing a record from a path alone never fails: it yields a
\* record that is not initialised, has no desktopid and has the given path,
\* without a call to the identity resolver or a change of the cache.
C18_PathAloneSucceeds ==
    (InitDone /\ ~Truthy(last.desktopid) /\ Truthy(last.path))
    => /\ last.result = "ok"
       /\ apps[last.slot] # NoApp
       /\ ~apps[last.slot].init
       /\ apps[last.slot].desktopid = None
       /\ apps[last.slot].path = last.path
       /\ last.probes = 0
       /\ desktopCache = last.preCache

(* ---------------------------------------------------------------------- *)
(* Properties: hasSameDesktopId                                            *)
(* ---------------------------------------------------------------------- *)
CompareDone == last.op = "hasSameDesktopId"

\* C19: hasSameDesktopId(other, resolveInterpreter=True) fails with
\* AttributeError whenever other is a string instead of an Application and
\* leaves the record unchanged; with resolveInterpreter=False a string is
\* accepted.
C19_StringsOnlyWithoutInterpreters ==
    (CompareDone /\ last.other.kind = "str") =>
       /\ last.resolveInterpreter => last.result = OnlyApplications
       /\ ~last.resolveInterpreter => last.result \in {"True", "False"}
       /\ apps[last.slot] = last.pre

C19_Witness ==
    /\ CompareDone
    /\ last.other.kind = "str"
    /\ last.resolveInterpreter
    /\ last.result = OnlyApplications
    /\ last.pre.interpreterid = "python" /\ last.other.str = "python"

\* C20: for two Applications hasSameDesktopId(other, resolveInterpreter)
\* is true exactly when self's desktopid equals the identifier extracted
\* from other's, or, only if resolveInterpreter is set, when self's
\* interpreterid equals other's desktopid or self's desktopid equals
\* other's interpreterid; it is false in every other case.
C20_SameIdExactly ==
    (CompareDone /\ last.other.kind = "app") =>
       LET self == last.pre
           other == last.other.app
           same == \/ self.desktopid = DesktopReName(other.desktopid)
                   \/ /\ last.resolveInterpreter
                      /\ \/ self.interpreterid = other.desktopid
                         \/ self.desktopid = other.interpreterid
       IN /\ last.result \in {"True", "False"}
          /\ (last.result = "True") <=> same

C20_Witness ==
    /\ CompareDone
    /\ last.other.kind = "app"
    /\ last.resolveInterpreter
    /\ last.result = "True"
    /\ last.pre.desktopid = "ristretto"
    /\ last.pre.interpreterid = "python"
    /\ last.other.app.desktopid = "python"

(* ---------------------------------------------------------------------- *)
(* Properties: sendEventsToStore                                           *)
(* ---------------------------------------------------------------------- *)
SendDone == last.op = "sendEventsToStore"

\* number of times an event occurs in a sequence of events
RECURSIVE Occurrences(_, _)
Occurrences(events, e) ==
    IF events = <<>> THEN 0
    ELSE (IF Head(events) = e THEN 1 ELSE 0) + Occurrences(Tail(events), e)

\* C21: sendEventsToStore appends every event of the record's log to the
\* EventStore exactly once, in the log's order, each with its actor set to
\* this record, and afterwards the record's log is empty; events already in
\* the EventStore are neither removed nor reordered.
C21_LogIsSentInOrder ==
    SendDone =>
      LET sent == last.pre.events
          n == Len(last.preStore)
      IN /\ Len(eventStore) = n + Len(sent)
         /\ SubSeq(eventStore, 1, n) = last.preStore
         /\ SubSeq(eventStore, n + 1, Len(eventStore)) = sent
         /\ \A e \in SeqToSet(sent) :
               /\ actor[e] = last.slot
               /\ Occurrences(eventStore, e)
                    = Occurrences(last.preStore, e) + 1
         /\ apps[last.slot].events = <<>>

C21_Witness ==
    /\ SendDone
    /\ Len(last.pre.events) >= 2
    /\ Len(last.preStore) >= 1
    /\ \E e \in SeqToSet(last.preStore) : actor[e] # last.slot

(* ---------------------------------------------------------------------- *)
(* Properties: the results of split                                        *)
(* ---------------------------------------------------------------------- *)
\* the case of C22: the Application ristretto, pid 21, running from 0 to
\* 300 and holding exactly one event, of time 140, was asked to
\* split(139, 141)
ExampleSplitDone ==
    /\ SplitDone
    /\ last.pre.desktopid = "ristretto"
    /\ last.pre.pid = TestPid
    /\ last.pre.tstart = TestStart
    /\ last.pre.tend = TestEnd
    /\ Len(last.pre.events) = 1
    /\ evtime[last.pre.events[1]] = TestEventTime
    /\ last.beforeEnd = TestEventTime - 1
    /\ last.afterStart = TestEventTime + 1

\* C22 as stated: for that Application split(139, 141) returns a left
\* record with no event and an unchanged time of end, and a right record
\* with exactly the event of time 140 whose time of start is 140.
C22_ExampleSplitsInTwo ==
    ExampleSplitDone
    => /\ last.result = "ok"
       /\ last.left.events = <<>>
       /\ last.left.tend = last.pre.tend
       /\ last.right.events = last.pre.events
       /\ last.right.tstart = TestEventTime

\* C22 amended: for that Application split(139, 141) raises IndexError and
\* returns no record, the event of time 140 being between the two bounds;
\* the Application is left as it was.
C22_ExampleSplitRaises ==
    ExampleSplitDone
    => /\ last.result = "IndexError"
       /\ apps[last.slot] = last.pre

C22_Witness ==
    /\ ExampleSplitDone
    /\ last.result = "IndexError"

CarriesOriginal(copy, original) ==
    /\ copy.desktopid = original.desktopid
    /\ copy.interpreterid = original.interpreterid
    /\ copy.pid = original.pid
    /\ copy.fds = original.fds

\* an openFD or closeFD changes the table of the Application it is called
\* on and of no other
OnlyOwnTableChanges ==
    \A x \in Holders :
       (/\ last'.op \in {"openFD", "closeFD"}
        /\ x # last'.slot
        /\ apps[x] # NoApp)
       => apps'[x] = apps[x]

\* C24: both records returned by split carry the original's desktopid,
\* interpreterid, pid and whole file-descriptor table, and the three tables
\* are independent: an openFD or closeFD applied afterwards to left, right
\* or the original changes only that record's table.
C24_CopiesAreIndependent ==
    /\ [](SplitOk => /\ CarriesOriginal(last.left, last.pre)
                     /\ CarriesOriginal(last.right, last.pre))
    /\ [][OnlyOwnTableChanges]_vars

C24_Witness ==
    /\ last.op = "openFD"
    /\ last.slot = LeftVar
    /\ apps[1].fds[3] # <<>>
    /\ Len(apps[LeftVar].fds[3]) > Len(apps[1].fds[3])
    /\ apps[RightVar].fds = apps[1].fds

(* ---------------------------------------------------------------------- *)
(* Properties: the event logs                                              *)
(* ---------------------------------------------------------------------- *)
\* two logs that have no event in common
Disjoint(log1, log2) == SeqToSet(log1) \cap SeqToSet(log2) = {}

\* C25: at every moment an event is in the log of at most one record: no
\* sequence of addEvent, merge and split leaves the same event in the logs
\* of two records (the other record of a merge and the original of a split
\* included).
C25_OneOwnerPerEvent ==
    /\ \A x \in Holders, y \in Holders :
          (x # y /\ apps[x] # NoApp /\ apps[y] # NoApp)
          => Disjoint(apps[x].events, apps[y].events)
    /\ SplitOk => /\ Disjoint(last.left.events, last.right.events)
                  /\ Disjoint(last.left.events, apps[last.slot].events)
                  /\ Disjoint(last.right.events, apps[last.slot].events)

\* a log ordered by non-decreasing time
Sorted(events) ==
    \A i \in 1..Len(events), j \in 1..Len(events) :
       i < j => evtime[events[i]] <= evtime[events[j]]

\* the place of an event in a log that holds it once
Pos(events, e) == CHOOSE i \in 1..Len(events) : events[i] = e

\* new is old with the events of added inserted one after the other: the
\* events of old keep their order, and an inserted event stands behind
\* every event of the same time that was in the log before it
InsertedInOrder(old, new, added) ==
    /\ Len(new) = Len(old) + Len(added)
    /\ SeqToSet(new) = SeqToSet(old) \cup SeqToSet(added)
    /\ \A i \in 1..Len(old), j \in 1..Len(old) :
          i < j => Pos(new, old[i]) < Pos(new, old[j])
    /\ \A i \in 1..Len(old), j \in 1..Len(added) :
          evtime[old[i]] = evtime[added[j]]
          => Pos(new, old[i]) < Pos(new, added[j])
    /\ \A i \in 1..Len(added), j \in 1..Len(added) :
          (i < j /\ evtime[added[i]] = evtime[added[j]])
          => Pos(new, added[i]) < Pos(new, added[j])

\* addEvent and merge insert into the log in the order of their calls
LogStepKeepsInsertionOrder ==
    /\ last'.op = "addEvent"
       => LET old == apps[last'.slot].events
              new == apps'[last'.slot].events
          IN \E e \in SeqToSet(new) \ SeqToSet(old) :
                InsertedInOrder(old, new, <<e>>)
    /\ (last'.op = "merge" /\ last'.result = "ok")
       => InsertedInOrder(apps[last'.slot].events, apps'[last'.slot].events,
                          last'.order)

CacheHit ==
    /\ InitDone
    /\ last.token # None
    /\ last.token \in DOMAIN last.preCache

\* no step removes a key of the cache or changes what it is cached with
CacheStepKeepsKeys ==
    \A k \in DOMAIN desktopCache :
       k \in DOMAIN desktopCache' /\ desktopCache'[k] = desktopCache[k]

\* C27: the desktop cache only grows: once a key is in the cache no lookup,
\* construction, merge or split removes it, and looking up a desktopid that
\* is a key of the cache returns the cached pair without probing any
\* search location.
C27_CacheOnlyGrows ==
    /\ [](CacheHit => /\ last.probes = 0
                      /\ last.result = "ok"
                      /\ apps[last.slot].desktopid = last.preCache[last.token]
                      /\ desktopCache = last.preCache)
    /\ [][CacheStepKeepsKeys]_vars

C27_Witness ==
    /\ CacheHit
    /\ last.probes = 0
    /\ last.slot = 2
    /\ apps[1] # NoApp
    /\ Cardinality(DOMAIN desktopCache) >= 2

(* ---------------------------------------------------------------------- *)
(* Properties: what merge takes from other                                 *)
(* ---------------------------------------------------------------------- *)
\* the case of C28: different desktopids, and self's desktopid equal to
\* other's interpreterid
SelfIsInterpreterOfOther ==
    /\ MergeDone
    /\ last.pre.desktopid # last.preOther.desktopid
    /\ last.pre.desktopid = last.preOther.interpreterid

\* C28 as stated: when self's desktopid equals other's interpreterid (and
\* the desktopids differ), self.merge(other) succeeds and afterwards self's
\* desktopid is other's desktopid and self's interpreterid is other's
\* interpreterid.
C28_InterpreterAdoptsOther ==
    SelfIsInterpreterOfOther
    => /\ last.result = "ok"
       /\ apps[last.slot].desktopid = last.preOther.desktopid
       /\ apps[last.slot].interpreterid = last.preOther.interpreterid

\* C28 amended: when self's desktopid equals other's interpreterid, the
\* desktopids differ, pid and initialisation status are the same and self's
\* interpreterid is not other's desktopid, self.merge(other) succeeds and
\* afterwards self's desktopid (also in its uid) and interpreterid are
\* other's.
C28_InterpreterAdoptsOtherOfSameProcess ==
    (/\ SelfIsInterpreterOfOther
     /\ last.pre.pid = last.preOther.pid
     /\ last.pre.init = last.preOther.init
     /\ last.pre.interpreterid # last.preOther.desktopid)
    => /\ last.result = "ok"
       /\ apps[last.slot].desktopid = last.preOther.desktopid
       /\ apps[last.slot].interpreterid = last.preOther.interpreterid
       /\ apps[last.slot].uid[1] = last.preOther.desktopid

C28_Witness ==
    /\ SelfIsInterpreterOfOther
    /\ last.result = "ok"
    /\ last.pre.desktopid = "python" /\ last.pre.interpreterid = None
    /\ apps[last.slot].desktopid = "ristretto"
    /\ apps[last.slot].interpreterid = "python"

\* a path or command line that is unset: None, or the empty string that
\* "not self.path" / "not self.cmdline" cannot tell from None
Unset(s) == ~Truthy(s)

\* an attribute that a merge changes only when self had it unset, and then
\* to what other has
FilledOnlyWhenUnset(before, after, others) ==
    /\ ~Unset(before) => after = before
    /\ after # before => (Unset(before) /\ after = others)

\* C29: a successful self.merge(other) sets self's path to other's path
\* only when self's path was unset, and self's command line to other's only
\* when self's was unset; a path or command line already set on self is
\* never overwritten by merge.
C29_MergeFillsOnlyUnset ==
    MergeOk =>
      /\ FilledOnlyWhenUnset(last.pre.path, apps[last.slot].path,
                             last.preOther.path)
      /\ FilledOnlyWhenUnset(last.pre.cmdline, apps[last.slot].cmdline,
                             last.preOther.cmdline)

C29_Witness ==
    /\ MergeOk
    /\ last.pre.cmdline = None
    /\ last.preOther.cmdline = "app --run"
    /\ apps[last.slot].cmdline = "app --run"
    /\ apps[last.other].cmdline = "app --run"

\* the other case of C29: a merge that met a command line set on self
C29_KeptWitness ==
    /\ MergeOk
    /\ last.pre.cmdline = "app --run"
    /\ last.preOther.cmdline = "app --debug"
    /\ apps[last.slot].cmdline = "app --run"

\* C30: after a successful self.merge(other), self's log holds exactly the
\* union of the events self and other held before the merge, each event
\* once: an event that was in both logs is not duplicated, and two
\* different events of the same time are both kept.
C30_MergedLogIsTheUnion ==
    MergeOk =>
      LET merged == apps[last.slot].events
          union == SeqToSet(last.pre.events) \cup SeqToSet(last.preOther.events)
      IN /\ SeqToSet(merged) = union
         /\ \A e \in union : Occurrences(merged, e) = 1
         /\ Len(merged) = Cardinality(union)

C30_Witness ==
    /\ MergeOk
    /\ \E c \in SeqToSet(last.pre.events) \cap SeqToSet(last.preOther.events),
          e1 \in SeqToSet(last.pre.events) \ SeqToSet(last.preOther.events),
          e2 \in SeqToSet(last.preOther.events) \ SeqToSet(last.pre.events) :
          /\ evtime[e1] = evtime[e2]
          /\ Occurrences(apps[last.slot].events, c) = 1
          /\ Len(apps[last.slot].events) = 3

(* ---------------------------------------------------------------------- *)
(* Properties: what openFD and closeFD change                              *)
(* ---------------------------------------------------------------------- *)
\* the Application of the last call is what it was before the call, but
\* for its file-descriptor table
OnlyTableChanged == apps[last.slot] = [last.pre EXCEPT !.fds = apps[last.slot].fds]

\* C31: closeFD(fd, time) on an fd that has no intervals, or whose last
\* interval already has a non-zero close time, raises nothing and leaves
\* the whole table unchanged; when the last interval is open it changes
\* only that interval's close time and no other interval or fd.
C31_CloseChangesOnlyTheOpenInterval ==
    last.op = "closeFD" =>
      LET old == last.pre.fds
          new == apps[last.slot].fds
          n == Len(old[last.fd])
      IN /\ OnlyTableChanged
         /\ \A h \in Handles \ {last.fd} : new[h] = old[h]
         /\ Len(new[last.fd]) = n
         /\ \A i \in 1..n :
               /\ new[last.fd][i].path = old[last.fd][i].path
               /\ new[last.fd][i].tstart = old[last.fd][i].tstart
               /\ new[last.fd][i].tend =
                    IF i = n /\ old[last.fd][n].tend = 0
                    THEN last.time ELSE old[last.fd][i].tend

C31_Witness ==
    /\ last.op = "closeFD"
    /\ last.time # 0
    /\ Len(last.pre.fds[last.fd]) >= 1
    /\ last.pre.fds[last.fd][Len(last.pre.fds[last.fd])].tend
         \notin {0, last.time}
    /\ \E h \in Handles \ {last.fd} : last.pre.fds[h] # <<>>
    /\ apps[last.slot].fds = last.pre.fds

\* the table after openFD is the table before it with one interval, open
\* and starting at the time given, appended to the list of the fd
AppendedOneInterval(locator) ==
    LET old == last.pre.fds
        new == apps[last.slot].fds
    IN /\ OnlyTableChanged
       /\ \A h \in Handles \ {last.fd} : new[h] = old[h]
       /\ new[last.fd] = Append(old[last.fd],
                                [path |-> locator, tstart |-> last.time,
                                 tend |-> 0])

\* C32 as stated: openFD(fd, locator, time) never fails, whatever the state
\* of the fd: it always appends exactly one interval (locator, time, open)
\* at the end of that fd's list and leaves every other interval and fd
\* unchanged.
C32_OpenAppendsTheLocator ==
    last.op = "openFD" => AppendedOneInterval(last.path)

\* C32 amended: openFD(fd, locator, time) never fails, whatever the state
\* of the fd: it always appends exactly one interval (l, time, open) at the
\* end of that fd's list, l being the locator, or for a locator starting
\* with '@' the path FileFactory resolves it to when it resolves it, and
\* leaves every other interval and fd unchanged.
C32_OpenAppendsTheResolvedLocator ==
    last.op = "openFD" =>
      /\ AppendedOneInterval(last.stored)
      /\ ~StartsWithAt(last.path) => last.stored = last.path
      /\ last.stored \in {last.path} \cup (ResolveFDRefOutcomes \ {None})

C32_Witness ==
    /\ last.op = "openFD"
    /\ last.warned
    /\ StartsWithAt(last.path)
    /\ last.stored # last.path
    /\ Len(apps[last.slot].fds[last.fd]) = 2

(* ---------------------------------------------------------------------- *)
(* Properties: split and its bounds                                        *)
(* ---------------------------------------------------------------------- *)
\* C33: after a successful split(beforeEnd, afterStart) the left record
\* starts at the original's time of start and ends at beforeEnd, and the
\* right record starts at afterStart and ends at the original's time of
\* end.
C33_SplitWindowsMeetTheBounds ==
    SplitOk =>
      /\ last.left.tstart = last.pre.tstart
      /\ last.left.tend = last.beforeEnd
      /\ last.right.tstart = last.afterStart
      /\ last.right.tend = last.pre.tend

(* ---------------------------------------------------------------------- *)
(* Properties: lookups that interleave                                     *)
(* ---------------------------------------------------------------------- *)
\* what one lookup of a desktopid, alone and on an empty cache, returns and
\* leaves in the cache
AloneLookup(desktopid) == GetDesktopFile(EmptyCache, desktopid)

\* every thread that has entered __getDesktopFile looks the same desktopid up
OnlyLookedUp(desktopid) ==
    \A t \in Threads : lookups[t].pc # "idle" => lookups[t].token = desktopid

\* C34: insertion into the cache is idempotent: looking the same desktopid
\* up twice, one lookup after the other or two interleaved lookups that
\* both miss the cache before either inserts, leaves the cache with the
\* keys and the key-to-finalid mapping of a single lookup, and both
\* lookups return the same finalid.
C34_LookupsAreIdempotent ==
    \A t \in Threads :
       lookups[t].pc = "done" =>
         /\ lookups[t].did = AloneLookup(lookups[t].token).did
         /\ \A u \in Threads :
               (lookups[u].pc = "done" /\ lookups[u].token = lookups[t].token)
               => lookups[u].did = lookups[t].did
         /\ OnlyLookedUp(lookups[t].token)
            => desktopCache = AloneLookup(lookups[t].token).cache

C34_Witness ==
    /\ \A t \in Threads : /\ lookups[t].pc = "done"
                           /\ lookups[t].token = "ristretto"
                           /\ lookups[t].missed
                           /\ lookups[t].did = "ristretto"
    /\ desktopCache = AloneLookup("ristretto").cache

(* ---------------------------------------------------------------------- *)
(* Properties: what merge and split leave alone                            *)
(* ---------------------------------------------------------------------- *)
\* C35: a merge that fails (different initialisation status, pid or
\* desktopid) leaves self and other exactly as they were before the call:
\* desktopid, interpreterid, path, cmdline, times, uid, event log and
\* file-descriptor table are all unchanged.
C35_FailedMergeChangesNothing ==
    (MergeDone /\ last.result # "ok")
    => /\ apps[last.slot] = last.pre
       /\ apps[last.other] = last.preOther

C35_Witness ==
    /\ MergeDone
    /\ last.result = "ValueError: pid"
    /\ last.pre.tstart # last.preOther.tstart
    /\ last.pre.tend # last.preOther.tend
    /\ last.pre.events # <<>> /\ last.preOther.events # <<>>
    /\ last.pre.fds[3] # <<>> /\ last.preOther.fds[3] # <<>>

\* C37: a successful self.merge(other) leaves self's file-descriptor table
\* exactly as it was (no interval of other's goes to self) and changes no
\* field of other.
C37_MergeKeepsTablesAndOther ==
    MergeOk
    => /\ apps[last.slot].fds = last.pre.fds
       /\ apps[last.other] = last.preOther

C37_Witness ==
    /\ MergeOk
    /\ last.preOther.fds[3] # <<>>
    /\ last.pre.fds # last.preOther.fds
    /\ last.preOther.events # <<>>
    /\ apps[last.slot].events # last.pre.events
    /\ apps[last.slot].tend # last.pre.tend

\* C36: split, whether it succeeds or fails, leaves the record it is called
\* on unchanged: its event log, times, uid, desktopid and file-descriptor
\* table are the same after the call as before.
C36_SplitLeavesTheOriginal ==
    SplitDone => apps[last.slot] = last.pre

C36_Witness ==
    /\ SplitOk
    /\ apps[last.slot] = last.pre
    /\ last.left.events # <<>> /\ last.right.events # <<>>
    /\ last.left.tend # last.pre.tend
    /\ last.right.tstart # last.pre.tstart

\* the events of a log before / after a time, in the log's order
EventsBefore(events, t) == SelectSeq(events, LAMBDA e : evtime[e] < t)
EventsAfter(events, t) == SelectSeq(events, LAMBDA e : evtime[e] > t)

\* the events of a log with a timestamp in [lo, hi]
Within(events, lo, hi) ==
    {e \in SeqToSet(events) : lo <= evtime[e] /\ evtime[e] <= hi}

C39_ReversedBoundsStillPartition ==
    (/\ SplitDone
     /\ last.beforeEnd > last.afterStart
     /\ StrictlyBetween(last.pre.events, last.afterStart, last.beforeEnd) = {})
    => /\ last.result = "ok"
       /\ Disjoint(last.left.events, last.right.events)
       /\ SeqToSet(last.left.events) \cup SeqToSet(last.right.events)
            = SeqToSet(last.pre.events)
       /\ last.left.events \o last.right.events = last.pre.events

C39_Witness ==
    /\ SplitOk
    /\ last.beforeEnd > last.afterStart
    /\ last.left.events # <<>> /\ last.right.events # <<>>
    /\ Disjoint(last.left.events, last.right.events)
    /\ Len(last.left.events) + Len(last.right.events) = Len(last.pre.events)

\* the first tuple of an fd's list that contains a time
FirstContaining(fdList, time) ==
    CHOOSE i \in Containing(fdList, time) :
        \A j \in Containing(fdList, time) : i <= j

\* C40: when several intervals of one fd contain the queried time (two
\* openFD calls with no closeFD between them, or an interval that closes at
\* the instant the next one opens), resolveFD returns the path of the
\* interval that was appended first, not of the most recently opened one.
C40_ResolveFDPrefersTheOldest ==
    (/\ last.op = "resolveFD"
     /\ Cardinality(Containing(apps[last.slot].fds[last.fd], last.time)) >= 2)
    => LET fdList == apps[last.slot].fds[last.fd]
       IN last.result = fdList[FirstContaining(fdList, last.time)].path

\* an interval closed at the instant the next one opens, queried at that time
C40_Witness ==
    /\ last.op = "resolveFD"
    /\ LET fdList == apps[last.slot].fds[last.fd]
       IN /\ Containing(fdList, last.time) = {1, 2}
          /\ fdList[1].tend = last.time /\ fdList[2].tstart = last.time
          /\ fdList[1].path # fdList[2].path
          /\ last.result = fdList[1].path

====
